---------------------------- MODULE Spec2Model ----------------------------
(***************************************************************************)
(* Model of downloader/views.py: the two Django views (home and            *)
(* download_video), the ffmpeg capability prober, the yt-dlp error         *)
(* translator and the progress hook.                                       *)
(*                                                                         *)
(* Python strings that the code searches, trims or lower-cases are         *)
(* sequences of one-character strings, so that `in`, .strip() and .lower() *)
(* are computed the way Python computes them.  Strings the code only       *)
(* passes along (titles, notification texts, exception names) are TLA+     *)
(* strings.                                                                *)
(***************************************************************************)
EXTENDS Integers, Sequences, FiniteSets, TLC

(***************************************************************************)
(* Bounds of the model.                                                    *)
(***************************************************************************)
\* probed durations 0..MaxDuration are tried beside the ones around the default limit
MaxDuration == 2
\* the engine invokes the progress hook at most this many times per download
MaxHookEvents == 2
\* an engine error text is made of at most this many fragments
MaxFragments == 2

(***************************************************************************)
(* Python string primitives.                                               *)
(***************************************************************************)
Whitespace == {" ", "\t", "\n"}

UpperToLower ==
    [c \in {"A","B","C","D","E","F","G","H","I","J","K","L","M",
            "N","O","P","Q","R","S","T","U","V","W","X","Y","Z"} |->
        CASE c = "A" -> "a" [] c = "B" -> "b" [] c = "C" -> "c" [] c = "D" -> "d"
          [] c = "E" -> "e" [] c = "F" -> "f" [] c = "G" -> "g" [] c = "H" -> "h"
          [] c = "I" -> "i" [] c = "J" -> "j" [] c = "K" -> "k" [] c = "L" -> "l"
          [] c = "M" -> "m" [] c = "N" -> "n" [] c = "O" -> "o" [] c = "P" -> "p"
          [] c = "Q" -> "q" [] c = "R" -> "r" [] c = "S" -> "s" [] c = "T" -> "t"
          [] c = "U" -> "u" [] c = "V" -> "v" [] c = "W" -> "w" [] c = "X" -> "x"
          [] c = "Y" -> "y" [] c = "Z" -> "z"]

\* str.lower()
Lower(s) ==
    [i \in 1..Len(s) |-> IF s[i] \in DOMAIN UpperToLower THEN UpperToLower[s[i]] ELSE s[i]]

\* str.strip(): leading and trailing whitespace removed
Strip(s) ==
    LET keep == {i \in 1..Len(s) : s[i] \notin Whitespace}
    IN  IF keep = {} THEN <<>>
        ELSE LET lo == CHOOSE i \in keep : \A j \in keep : i <= j
                 hi == CHOOSE i \in keep : \A j \in keep : j <= i
             IN  SubSeq(s, lo, hi)

\* Python's `sub in s` on strings
Contains(sub, s) ==
    \E i \in 0..(Len(s) - Len(sub)) : \A j \in 1..Len(sub) : s[i + j] = sub[j]

\* the elements of a sequence of strings, joined by sep
RECURSIVE Join(_, _)
Join(parts, sep) ==
    IF parts = <<>> THEN <<>>
    ELSE IF Len(parts) = 1 THEN parts[1]
    ELSE parts[1] \o sep \o Join(Tail(parts), sep)

(***************************************************************************)
(* String literals of views.py.                                            *)
(***************************************************************************)
M_youtube_com == <<"y","o","u","t","u","b","e",".","c","o","m","/">>
M_youtu_be == <<"y","o","u","t","u",".","b","e","/">>
M_ffmpeg_version == <<"f","f","m","p","e","g"," ","v","e","r","s","i","o","n">>
M_unable == <<"u","n","a","b","l","e"," ","t","o"," ","d","o","w","n","l","o","a","d"," ","w","e","b","p","a","g","e">>
M_ffmpeg == <<"f","f","m","p","e","g">>
M_not_installed == <<"n","o","t"," ","i","n","s","t","a","l","l","e","d">>
M_private == <<"p","r","i","v","a","t","e"," ","v","i","d","e","o">>
M_age == <<"a","g","e"," ","r","e","s","t","r","i","c","t","e","d">>
M_copyright == <<"c","o","p","y","r","i","g","h","t">>
M_unavailable == <<"u","n","a","v","a","i","l","a","b","l","e">>
FMT_MERGE == <<"b","e","s","t","v","i","d","e","o","[","e","x","t","=","m","p","4","]","+","b","e","s","t","a","u","d","i","o","[","e","x","t","=","m","4","a","]","/","b","e","s","t","[","e","x","t","=","m","p","4","]","/","b","e","s","t">>
FMT_BASIC == <<"b","e","s","t","v","i","d","e","o","[","e","x","t","=","m","p","4","]","+","b","e","s","t","a","u","d","i","o","/","b","e","s","t","[","e","x","t","=","m","p","4","]","/","b","e","s","t">>

MSG_NOT_FOUND == "Video not found or unavailable"
MSG_CONFIG == "System configuration issue - using basic download mode"
MSG_PRIVATE == "This video is private and cannot be downloaded"
MSG_AGE == "Age-restricted content requires YouTube login"
MSG_COPYRIGHT == "Copyright protected content cannot be downloaded"
MSG_REGION == "Video is unavailable in your region"
MSG_GENERIC == "Error downloading video - please check the URL"
MSG_INVALID_METHOD == "Invalid request method"
MSG_INVALID_URL == "Please provide a valid YouTube URL"
MSG_BASIC_MODE == "Using basic download mode - some HD formats might not be available"
MSG_EXTRACT == "Error extracting video information"

\* the default of getattr(settings, 'MAX_VIDEO_DURATION', 7200)
DEFAULT_MAX_VIDEO_DURATION == 7200

(***************************************************************************)
(* _parse_youtube_dl_error                                                 *)
(***************************************************************************)
ParseCopyrightFirst(error) ==
    LET error_lower == Lower(error)
    IN  IF Contains(M_unable, error_lower) THEN MSG_NOT_FOUND
        ELSE IF Contains(M_ffmpeg, error_lower) /\ Contains(M_not_installed, error_lower)
             THEN MSG_CONFIG
        ELSE IF Contains(M_copyright, error_lower) THEN MSG_COPYRIGHT
        ELSE IF Contains(M_private, error_lower) THEN MSG_PRIVATE
        ELSE IF Contains(M_age, error_lower) THEN MSG_AGE
        ELSE IF Contains(M_unavailable, error_lower) THEN MSG_REGION
        ELSE MSG_GENERIC

_parse_youtube_dl_error(error) ==
    LET error_lower == Lower(error)
    IN  IF Contains(M_unable, error_lower) THEN MSG_NOT_FOUND
        ELSE IF Contains(M_ffmpeg, error_lower) /\ Contains(M_not_installed, error_lower)
             THEN MSG_CONFIG
        ELSE IF Contains(M_private, error_lower) THEN MSG_PRIVATE
        ELSE IF Contains(M_age, error_lower) THEN MSG_AGE
        ELSE IF Contains(M_copyright, error_lower) THEN MSG_COPYRIGHT
        ELSE IF Contains(M_unavailable, error_lower) THEN MSG_REGION
        ELSE MSG_GENERIC


(***************************************************************************)
(* Python values.  A value that may be None or missing is tagged, so that  *)
(* a number is never compared with None.                                   *)
(***************************************************************************)
NoneVal == [t |-> "none", v |-> 0]
Num(n) == [t |-> "int", v |-> n]
Missing == [t |-> "missing", v |-> 0]

\* dict.get(key, default) and getattr(obj, name, default)
Get(d, key, default) == IF key \in DOMAIN d THEN d[key] ELSE default

\* dict.update(u)
Update(d, u) ==
    [k \in DOMAIN d \cup DOMAIN u |-> IF k \in DOMAIN u THEN u[k] ELSE d[k]]

(***************************************************************************)
(* The exception classes the handlers of views.py tell apart: each class   *)
(* with its base class, and isinstance.                                    *)
(***************************************************************************)
Parent ==
    [c \in {"FileNotFoundError", "PermissionError", "OSError", "SubprocessError",
            "DownloadError", "ExtractorError", "UnavailableVideoError",
            "YoutubeDLError", "KeyError", "LookupError", "TypeError", "Exception"} |->
        CASE c \in {"FileNotFoundError", "PermissionError"} -> "OSError"
          [] c \in {"DownloadError", "ExtractorError", "UnavailableVideoError"} -> "YoutubeDLError"
          [] c = "KeyError" -> "LookupError"
          [] c = "Exception" -> "BaseException"
          [] OTHER -> "Exception"]

RECURSIVE IsInstance(_, _)
IsInstance(exc, cls) ==
    \/ exc = cls
    \/ exc \in DOMAIN Parent /\ IsInstance(Parent[exc], cls)

NoFault == [exc |-> "", text |-> <<>>]
Fault(exc, text) == [exc |-> exc, text |-> text]

\* an entry of a request's call log: "extract_info" (the metadata-only call, with what
\* it raised), "download" (the download call begins), "progress_hook" (the engine
\* invoked the hook, with what the hook raised), "download:end" (the download call
\* ends, with what it raised)
Call(op, raised) == [op |-> op, raised |-> raised]

(***************************************************************************)
(* _check_ffmpeg_available.  `run` is what subprocess.run did: it          *)
(* completed with some standard output, or the launch raised.  The result  *)
(* is the value returned, or the exception that leaves the function.       *)
(***************************************************************************)
Completed(stdout) == [kind |-> "completed", stdout |-> stdout, exc |-> ""]
Raised(exc) == [kind |-> "raised", stdout |-> <<>>, exc |-> exc]
NotRun == [kind |-> "none", stdout |-> <<>>, exc |-> ""]

_check_ffmpeg_available(run) ==
    IF run.kind = "raised"
    THEN IF IsInstance(run.exc, "SubprocessError") \/ IsInstance(run.exc, "FileNotFoundError")
         THEN [raised |-> "", value |-> FALSE]
         ELSE [raised |-> run.exc, value |-> FALSE]
    ELSE [raised |-> "", value |-> Contains(M_ffmpeg_version, run.stdout)]

(***************************************************************************)
(* The download options of download_video.                                 *)
(***************************************************************************)
\* os.path.join(settings.DOWNLOAD_DIR, '%(title)s.%(ext)s')
OutTmpl == <<"DOWNLOAD_DIR/", "%(title)s", ".", "%(ext)s">>

BaseOptions(conf) ==
    [outtmpl |-> OutTmpl,
     noplaylist |-> TRUE,
     quiet |-> TRUE,
     progress_hooks |-> <<"progress_hook">>,
     ffmpeg_location |-> Get(conf, "FFMPEG_PATH", "None")]

FormatOptionsAlwaysMerge(available) ==
    [format |-> FMT_MERGE, merge_output_format |-> "mp4"]

FormatOptions(available) ==
    IF available
    THEN [format |-> FMT_MERGE, merge_output_format |-> "mp4"]
    ELSE [format |-> FMT_BASIC]

\* the file name the engine writes: the template with title and extension filled in
RenderPath(tmpl, title, ext) ==
    [i \in 1..Len(tmpl) |->
        IF tmpl[i] = "%(title)s" THEN title
        ELSE IF tmpl[i] = "%(ext)s" THEN ext
        ELSE tmpl[i]]

(***************************************************************************)
(* progress_hook: the exception it raises on a status event, "" for none.  *)
(***************************************************************************)
progress_hook(d) ==
    IF "status" \notin DOMAIN d THEN "KeyError" ELSE ""

(***************************************************************************)
(* Notifications (django.contrib.messages) and responses.                  *)
(***************************************************************************)
Msg(level, fmt, arg) == [level |-> level, fmt |-> fmt, arg |-> arg]
Redirect == [kind |-> "redirect", arg |-> "home"]
Render(flag) == [kind |-> "render", arg |-> IF flag THEN "supports_merged_formats=True"
                                                 ELSE "supports_merged_formats=False"]
Raise(exc) == [kind |-> "raise", arg |-> exc]
NoResponse == [kind |-> "none", arg |-> ""]

\* the URL check of download_video, on the trimmed url: TRUE when it is rejected
RejectsUrlEmptyOnly(video_url) ==
    video_url = <<>>

RejectsUrl(video_url) ==
    video_url = <<>> \/ (~Contains(M_youtube_com, video_url) /\ ~Contains(M_youtu_be, video_url))

(***************************************************************************)
(* The duration check of download_video: info_dict.get('duration', 0) >    *)
(* max_duration.  Comparing None with a number raises TypeError.           *)
(***************************************************************************)
DurationCheckOffByOne(info, max_duration) ==
    LET d == Get(info, "duration", Num(0))
    IN  IF d.t = "none" THEN "TypeError"
        ELSE IF d.v >= max_duration THEN "exceeds" ELSE "ok"

DurationCheck(info, max_duration) ==
    LET d == Get(info, "duration", Num(0))
    IN  IF d.t = "none" THEN "TypeError"
        ELSE IF d.v > max_duration THEN "exceeds" ELSE "ok"

(***************************************************************************)
(* Inputs: what a client posts, what the deployment configures, what the   *)
(* ffmpeg launch does, and what the engine answers.                        *)
(***************************************************************************)
U_https == <<"h","t","t","p","s",":","/","/">>
U_example == <<"e","x","a","m","p","l","e",".","c","o","m","/">>
U_id == <<"a","b","c","1","2","3">>

U_watch == U_https \o M_youtube_com \o <<"w","a","t","c","h","?","v","=","x">>
U_short == <<" ">> \o U_https \o M_youtu_be \o U_id \o <<" ", "\n">>

PostUrls ==
    { <<>>,
      <<" ">>,
      <<"\t", "\n">>,
      <<"n","o","t","-","a","-","u","r","l">>,
      U_watch,
      U_short,
      M_youtu_be,
      U_https \o <<"y","o","u","t","u","b","e",".","c","o","m">>,
      U_https \o U_example \o U_id,
      U_https \o U_example \o <<"?","u","=">> \o M_youtu_be,
      U_https \o <<"Y","o","u","T","u",".","b","e","/">> \o U_id }

\* request.POST: the form fields of the request
PostData == {[k \in {} |-> <<>>]} \cup {[url |-> u] : u \in PostUrls}

Methods == {"GET", "POST"}

Conf(debug, mx, path) ==
    [k \in {"DEBUG"} \cup (IF mx = Missing THEN {} ELSE {"MAX_VIDEO_DURATION"})
                     \cup (IF path = "" THEN {} ELSE {"FFMPEG_PATH"}) |->
        IF k = "DEBUG" THEN debug ELSE IF k = "MAX_VIDEO_DURATION" THEN mx.v ELSE path]

Settings ==
    { Conf(debug, mx, path) : debug \in BOOLEAN, mx \in {Missing, Num(1)},
                              path \in {"", "/opt/ffmpeg/bin/ffmpeg"} }

Durations ==
    {Missing, NoneVal}
    \cup {Num(n) : n \in 0..MaxDuration}
    \cup {Num(n) : n \in (DEFAULT_MAX_VIDEO_DURATION - 1)..(DEFAULT_MAX_VIDEO_DURATION + 1)}

Titles == {"", "Clip", "Talk"}

\* the metadata the engine returns; a missing title or duration is a missing key
Info(title, duration) ==
    [k \in (IF title = "" THEN {} ELSE {"title"})
           \cup (IF duration = Missing THEN {} ELSE {"duration"}) |->
        IF k = "title" THEN title ELSE duration]

InfoDicts == { Info(t, d) : t \in Titles, d \in Durations }

RunOutcomes ==
    { Completed(M_ffmpeg_version \o <<" ","4",".","4">>),
      Completed(<<"F","F","m","p","e","g"," ","V","e","r","s","i","o","n">>),
      Completed(<<>>),
      Raised("FileNotFoundError"),
      Raised("PermissionError") }

E_private == <<"E","R","R","O","R",":"," ","P","r","i","v","a","t","e"," ","v","i","d","e","o">>
E_webpage == <<"U","n","a","b","l","e"," ","t","o"," ","d","o","w","n","l","o","a","d"," ","w","e","b","p","a","g","e">>
E_timeout == <<"t","i","m","e","d"," ","o","u","t">>

EngineFaults ==
    { Fault("DownloadError", t) : t \in {E_private, E_webpage, E_timeout} }
    \cup { Fault("ExtractorError", E_timeout), Fault("UnavailableVideoError", E_timeout) }

\* the status events the engine hands to the progress hook
StatusEvents ==
    { [status |-> "downloading", downloaded_bytes |-> 1],
      [status |-> "finished"],
      [downloaded_bytes |-> 1] }

\* what the engine names the file it writes
DownloadedNames == { <<"Clip", "mp4">>, <<"Talk", "webm">> }

Fragments ==
    { <<"E","R","R","O","R",":">>,
      <<"P","r","i","v","a","t","e"," ","v","i","d","e","o">>,
      <<"P","R","I","V","A","T","E"," ","V","I","D","E","O">>,
      <<"C","o","p","y","r","i","g","h","t">>,
      E_webpage,
      <<"F","F","m","p","e","g">>,
      <<"i","s"," ","n","o","t"," ","i","n","s","t","a","l","l","e","d">>,
      <<"a","g","e"," ","r","e","s","t","r","i","c","t","e","d">>,
      <<"V","i","d","e","o"," ","u","n","a","v","a","i","l","a","b","l","e">>,
      E_timeout }

ErrorTexts ==
    { Join(fs, <<" ">>) : fs \in UNION { [1..n -> Fragments] : n \in 0..MaxFragments } }

Reqs == {"A", "B"}

(***************************************************************************)
(* State.                                                                  *)
(***************************************************************************)
VARIABLES
    settings,   \* django.conf.settings
    site,       \* the metadata the engine resolves the submitted url to
    view,       \* per request: the view it is routed to
    method,     \* per request: request.method
    post,       \* per request: request.POST
    pc,         \* per request: where its handler stands
    video_url,  \* per request: the trimmed url
    ydl_opts,   \* per request: the download options
    proc,       \* per request: what subprocess.run did in the prober
    has_ffmpeg, \* per request: what the prober returned
    info_dict,  \* per request: the metadata the engine returned
    msgs,       \* per request: the notifications added to the request
    response,   \* per request: what the view returned or raised
    calls,      \* per request: the engine calls and hook invocations, each with what it raised
    fault,      \* per request: the exception caught by the handlers of the try
    hooked,     \* per request: the progress hook invocations of the download
    outPath,    \* per request: the file the download writes
    terr,       \* the text handed to the error translator
    tmsg        \* the message it returned

inputVars == <<settings, site, view, method, post, terr>>
vars == <<settings, site, view, method, post, pc, video_url, ydl_opts, proc, has_ffmpeg,
          info_dict, msgs, response, calls, fault, hooked, outPath, terr, tmsg>>

EmptyDict == [k \in {} |-> <<>>]

\* the state of the requests in `active`, each about to be handled
InitRequests(active) ==
    /\ pc = [r \in Reqs |-> IF r \in active THEN "start" ELSE "off"]
    /\ video_url = [r \in Reqs |-> <<>>]
    /\ ydl_opts = [r \in Reqs |-> EmptyDict]
    /\ proc = [r \in Reqs |-> NotRun]
    /\ has_ffmpeg = [r \in Reqs |-> FALSE]
    /\ info_dict = [r \in Reqs |-> EmptyDict]
    /\ msgs = [r \in Reqs |-> <<>>]
    /\ response = [r \in Reqs |-> NoResponse]
    /\ calls = [r \in Reqs |-> <<>>]
    /\ fault = [r \in Reqs |-> NoFault]
    /\ hooked = [r \in Reqs |-> 0]
    /\ outPath = [r \in Reqs |-> <<>>]

\* one request, of any kind
Init ==
    /\ settings \in Settings
    /\ site \in InfoDicts
    /\ \E v \in {"home", "download_video"}, m \in Methods, p \in PostData :
         /\ view = [r \in Reqs |-> v]
         /\ method = [r \in Reqs |-> m]
         /\ post = [r \in Reqs |-> p]
         /\ v = "home" => (m = "GET" /\ p = EmptyDict)
    /\ InitRequests({"A"})
    /\ terr = <<>>
    /\ tmsg = ""

(***************************************************************************)
(* The except clauses of download_video: the notifications after exception *)
(* e was raised inside the try, and what the view returns or raises.       *)
(***************************************************************************)
HandleRaiseAlways(m, e, conf) ==
    IF IsInstance(e.exc, "DownloadError")
    THEN [msgs |-> Append(m, Msg("error", _parse_youtube_dl_error(e.text), <<>>)),
          response |-> Redirect]
    ELSE IF IsInstance(e.exc, "ExtractorError")
    THEN [msgs |-> Append(m, Msg("error", MSG_EXTRACT, <<>>)), response |-> Redirect]
    ELSE [msgs |-> Append(m, Msg("error", "Unexpected error: {str(e)}", e.text)),
          response |-> Raise(e.exc)]

Handle(m, e, conf) ==
    IF IsInstance(e.exc, "DownloadError")
    THEN [msgs |-> Append(m, Msg("error", _parse_youtube_dl_error(e.text), <<>>)),
          response |-> Redirect]
    ELSE IF IsInstance(e.exc, "ExtractorError")
    THEN [msgs |-> Append(m, Msg("error", MSG_EXTRACT, <<>>)), response |-> Redirect]
    ELSE IF IsInstance(e.exc, "Exception")
    THEN [msgs |-> Append(m, Msg("error", "Unexpected error: {str(e)}", e.text)),
          response |-> IF conf["DEBUG"] THEN Raise(e.exc) ELSE Redirect]
    ELSE [msgs |-> m, response |-> Raise(e.exc)]

\* the success notification of download_video
SuccessMessageFixedTitle(info) ==
    Msg("success", "'{title}' downloaded successfully!", <<"Video">>)

SuccessMessage(info) ==
    Msg("success", "'{title}' downloaded successfully!", <<Get(info, "title", "Video")>>)

\* str(e) of the exceptions raised by the view's own code
E_KeyError == Fault("KeyError", <<"'","s","t","a","t","u","s","'">>)
E_TypeError == Fault("TypeError", <<"'",">","'"," ","n","o","t"," ","s","u","p","p","o","r","t","e","d">>)
LaunchFault(exc) == Fault(exc, <<"[","E","r","r","n","o","]">>)

\* request r ends: its notifications, its response and the exception it caught
Ends(r, m, resp, e) ==
    /\ msgs' = [msgs EXCEPT ![r] = m]
    /\ response' = [response EXCEPT ![r] = resp]
    /\ fault' = [fault EXCEPT ![r] = e]
    /\ pc' = [pc EXCEPT ![r] = "done"]

\* request r ends in the except clauses, having caught e
Caught(r, e) ==
    LET h == Handle(msgs[r], e, settings)
    IN  Ends(r, h.msgs, h.response, e)

(***************************************************************************)
(* home                                                                    *)
(***************************************************************************)
Home(r) ==
    /\ pc[r] = "start"
    /\ view[r] = "home"
    /\ \E run \in RunOutcomes :
         LET res == _check_ffmpeg_available(run)
         IN  /\ proc' = [proc EXCEPT ![r] = run]
             /\ has_ffmpeg' = [has_ffmpeg EXCEPT ![r] = res.value]
             /\ IF res.raised # ""
                THEN Ends(r, msgs[r], Raise(res.raised), NoFault)
                ELSE Ends(r, msgs[r], Render(res.value), NoFault)
    /\ UNCHANGED <<inputVars, tmsg, video_url, ydl_opts, info_dict, calls, hooked, outPath>>

(***************************************************************************)
(* download_video, up to the call of the prober: the method check, the     *)
(* url check and the base options.                                         *)
(***************************************************************************)
Receive(r) ==
    /\ pc[r] = "start"
    /\ view[r] = "download_video"
    /\ IF method[r] # "POST"
       THEN /\ Ends(r, Append(msgs[r], Msg("error", MSG_INVALID_METHOD, <<>>)), Redirect, NoFault)
            /\ UNCHANGED <<video_url, ydl_opts>>
       ELSE LET url == Strip(Get(post[r], "url", <<>>))
            IN  /\ video_url' = [video_url EXCEPT ![r] = url]
                /\ IF RejectsUrl(url)
                   THEN /\ Ends(r, Append(msgs[r], Msg("warning", MSG_INVALID_URL, <<>>)),
                                Redirect, NoFault)
                        /\ UNCHANGED ydl_opts
                   ELSE /\ ydl_opts' = [ydl_opts EXCEPT ![r] = BaseOptions(settings)]
                        /\ pc' = [pc EXCEPT ![r] = "probe"]
                        /\ UNCHANGED <<msgs, response, fault>>
    /\ UNCHANGED <<inputVars, tmsg, proc, has_ffmpeg, info_dict, calls, hooked, outPath>>

(***************************************************************************)
(* download_video: the prober is called and the format options are set.    *)
(***************************************************************************)
Probe(r) ==
    /\ pc[r] = "probe"
    /\ \E run \in RunOutcomes :
         LET res == _check_ffmpeg_available(run)
         IN  /\ proc' = [proc EXCEPT ![r] = run]
             /\ has_ffmpeg' = [has_ffmpeg EXCEPT ![r] = res.value]
             /\ IF res.raised # ""
                THEN /\ Caught(r, LaunchFault(res.raised))
                     /\ UNCHANGED ydl_opts
                ELSE /\ ydl_opts' = [ydl_opts EXCEPT ![r] = Update(@, FormatOptions(res.value))]
                     /\ msgs' = [msgs EXCEPT ![r] =
                                   IF res.value THEN @
                                   ELSE Append(@, Msg("info", MSG_BASIC_MODE, <<>>))]
                     /\ pc' = [pc EXCEPT ![r] = "extract"]
                     /\ UNCHANGED <<response, fault>>
    /\ UNCHANGED <<inputVars, tmsg, video_url, info_dict, calls, hooked, outPath>>

(***************************************************************************)
(* download_video: the metadata-only engine call and the duration check.   *)
(***************************************************************************)
ExtractInfo(r) ==
    /\ pc[r] = "extract"
    /\ \E out \in {NoFault} \cup EngineFaults :
         IF out # NoFault
         THEN /\ calls' = [calls EXCEPT ![r] = Append(@, Call("extract_info", out))]
              /\ Caught(r, out)
              /\ UNCHANGED info_dict
         ELSE LET max_duration == Get(settings, "MAX_VIDEO_DURATION", DEFAULT_MAX_VIDEO_DURATION)
                  chk == DurationCheck(site, max_duration)
              IN  /\ calls' = [calls EXCEPT ![r] = Append(@, Call("extract_info", NoFault))]
                  /\ info_dict' = [info_dict EXCEPT ![r] = site]
                  /\ IF chk = "TypeError"
                     THEN Caught(r, E_TypeError)
                     ELSE IF chk = "exceeds"
                     THEN Ends(r, Append(msgs[r],
                                    Msg("warning",
                                        "Videos longer than {max_duration//3600} hours are not supported",
                                        <<ToString(max_duration \div 3600)>>)),
                               Redirect, NoFault)
                     ELSE /\ pc' = [pc EXCEPT ![r] = "download"]
                          /\ UNCHANGED <<msgs, response, fault>>
    /\ UNCHANGED <<inputVars, tmsg, video_url, ydl_opts, proc, has_ffmpeg, hooked, outPath>>

(***************************************************************************)
(* download_video: the download call.  The engine starts writing the file, *)
(* invokes the progress hook some number of times, and returns or raises.  *)
(* The engine calls the hook unguarded, so an exception of the hook leaves *)
(* the download call and reaches the except clauses of the view.           *)
(***************************************************************************)
StartDownloadDeduplicated(r) ==
    /\ pc[r] = "download"
    /\ IF \E q \in Reqs \ {r} : video_url[q] = video_url[r] /\ outPath[q] # <<>>
       THEN /\ Ends(r, Append(msgs[r], SuccessMessage(info_dict[r])), Redirect, NoFault)
            /\ UNCHANGED <<calls, outPath>>
       ELSE /\ calls' = [calls EXCEPT ![r] = Append(@, Call("download", NoFault))]
            /\ \E name \in DownloadedNames :
                 outPath' = [outPath EXCEPT ![r] =
                               RenderPath(ydl_opts[r]["outtmpl"], name[1], name[2])]
            /\ pc' = [pc EXCEPT ![r] = "downloading"]
            /\ UNCHANGED <<msgs, response, fault>>
    /\ UNCHANGED <<inputVars, tmsg, video_url, ydl_opts, proc, has_ffmpeg, info_dict, hooked>>

StartDownload(r) ==
    /\ pc[r] = "download"
    /\ calls' = [calls EXCEPT ![r] = Append(@, Call("download", NoFault))]
    /\ \E name \in DownloadedNames :
         outPath' = [outPath EXCEPT ![r] = RenderPath(ydl_opts[r]["outtmpl"], name[1], name[2])]
    /\ pc' = [pc EXCEPT ![r] = "downloading"]
    /\ UNCHANGED <<inputVars, tmsg, video_url, ydl_opts, proc, has_ffmpeg, info_dict, msgs,
                   response, fault, hooked>>

HookEvent(r) ==
    /\ pc[r] = "downloading"
    /\ hooked[r] < MaxHookEvents
    /\ \E d \in StatusEvents :
         /\ hooked' = [hooked EXCEPT ![r] = @ + 1]
         /\ IF progress_hook(d) # ""
            THEN /\ calls' = [calls EXCEPT ![r] = Append(@, Call("progress_hook", E_KeyError))]
                 /\ Caught(r, E_KeyError)
            ELSE /\ calls' = [calls EXCEPT ![r] = Append(@, Call("progress_hook", NoFault))]
                 /\ UNCHANGED <<msgs, response, fault, pc>>
    /\ UNCHANGED <<inputVars, tmsg, video_url, ydl_opts, proc, has_ffmpeg, info_dict, outPath>>

FinishDownload(r) ==
    /\ pc[r] = "downloading"
    /\ \E out \in {NoFault} \cup EngineFaults :
         IF out # NoFault
         THEN /\ calls' = [calls EXCEPT ![r] = Append(@, Call("download:end", out))]
              /\ Caught(r, out)
         ELSE /\ calls' = [calls EXCEPT ![r] = Append(@, Call("download:end", NoFault))]
              /\ Ends(r, Append(msgs[r], SuccessMessage(info_dict[r])), Redirect, NoFault)
    /\ UNCHANGED <<inputVars, tmsg, video_url, ydl_opts, proc, has_ffmpeg, info_dict, hooked,
                   outPath>>

\* a step of download_video for request r
DownloadVideo(r) ==
    \/ Receive(r)
    \/ Probe(r)
    \/ ExtractInfo(r)
    \/ StartDownload(r)
    \/ HookEvent(r)
    \/ FinishDownload(r)

Next ==
    \E r \in Reqs :
        \/ Home(r)
        \/ DownloadVideo(r)

Spec == Init /\ [][Next]_vars

(***************************************************************************)
(* Two concurrent POST requests for the same valid url.                    *)
(***************************************************************************)
InitConc ==
    /\ settings \in { Conf(debug, Missing, "") : debug \in BOOLEAN }
    /\ site \in { Info("Clip", Num(0)), Info("Clip", Num(DEFAULT_MAX_VIDEO_DURATION + 1)) }
    /\ view = [r \in Reqs |-> "download_video"]
    /\ method = [r \in Reqs |-> "POST"]
    /\ \E u \in {U_watch, U_short} : post = [r \in Reqs |-> [url |-> u]]
    /\ InitRequests(Reqs)
    /\ terr = <<>>
    /\ tmsg = ""

NextConc == \E r \in Reqs : DownloadVideo(r)

SpecConc == InitConc /\ [][NextConc]_vars

(***************************************************************************)
(* The error translator applied to an engine error text.                   *)
(***************************************************************************)
InitTranslate ==
    /\ settings = Conf(FALSE, Missing, "")
    /\ site = Info("", Missing)
    /\ view = [r \in Reqs |-> "download_video"]
    /\ method = [r \in Reqs |-> "POST"]
    /\ post = [r \in Reqs |-> EmptyDict]
    /\ InitRequests({})
    /\ terr \in ErrorTexts
    /\ tmsg = ""

Translate ==
    /\ tmsg = ""
    /\ tmsg' = _parse_youtube_dl_error(terr)
    /\ UNCHANGED <<inputVars, pc, video_url, ydl_opts, proc, has_ffmpeg, info_dict, msgs,
                   response, calls, fault, hooked, outPath>>

NextTranslate == Translate

SpecTranslate == InitTranslate /\ [][NextTranslate]_vars

(***************************************************************************)
(* Vocabulary of the properties.                                           *)
(***************************************************************************)
\* c and d are the same letter, whatever their case
SameLetter(c, d) ==
    \/ c = d
    \/ c \in DOMAIN UpperToLower /\ UpperToLower[c] = d
    \/ d \in DOMAIN UpperToLower /\ UpperToLower[d] = c

\* some stretch of s spells mk
Occurs(mk, s) ==
    \E a \in 1..Len(s) : \E b \in a..Len(s) : SubSeq(s, a, b) = mk

\* some stretch of s spells mk, case aside
OccursAnyCase(mk, s) ==
    \E a \in 1..Len(s) : \E b \in a..Len(s) :
        /\ b - a + 1 = Len(mk)
        /\ \A j \in 1..Len(mk) : SameLetter(s[a + j - 1], mk[j])

\* the translator's table: the markers a row needs, and its message
MarkerTable ==
    << [markers |-> {M_unable}, message |-> MSG_NOT_FOUND],
       [markers |-> {M_ffmpeg, M_not_installed}, message |-> MSG_CONFIG],
       [markers |-> {M_private}, message |-> MSG_PRIVATE],
       [markers |-> {M_age}, message |-> MSG_AGE],
       [markers |-> {M_copyright}, message |-> MSG_COPYRIGHT],
       [markers |-> {M_unavailable}, message |-> MSG_REGION] >>

RowsMatching(text) ==
    { i \in 1..Len(MarkerTable) : \A mk \in MarkerTable[i].markers : OccursAnyCase(mk, text) }

\* C5: the translator returns the message of the first row of the table whose markers
\* all occur in the text, case aside, and the generic message when no row matches; a
\* text with both "private video" and "copyright" gets the private-video message.
C5_FirstMarkerWins ==
    tmsg # "" =>
        LET rows == RowsMatching(terr)
        IN  /\ rows = {} => tmsg = MSG_GENERIC
            /\ rows # {} =>
                 tmsg = MarkerTable[CHOOSE i \in rows : \A j \in rows : i <= j].message
            /\ (OccursAnyCase(M_private, terr) /\ OccursAnyCase(M_copyright, terr)
                  /\ ~OccursAnyCase(M_unable, terr)
                  /\ ~(OccursAnyCase(M_ffmpeg, terr) /\ OccursAnyCase(M_not_installed, terr)))
                 => tmsg = MSG_PRIVATE

C5_Witness ==
    /\ tmsg = MSG_PRIVATE
    /\ OccursAnyCase(M_private, terr)
    /\ OccursAnyCase(M_copyright, terr)
    /\ ~Occurs(M_private, terr)

(***************************************************************************)
(* Properties of download_video and home.                                  *)
(***************************************************************************)
Done(r) == pc[r] = "done"
IsDownloadPost(r) == pc[r] # "off" /\ view[r] = "download_video" /\ method[r] = "POST"
RawUrl(r) == Get(post[r], "url", <<>>)
Count(r, op) == Cardinality({i \in 1..Len(calls[r]) : calls[r][i].op = op})
MetaCalls(r) == Count(r, "extract_info")
DownloadCalls(r) == Count(r, "download")
LastMsg(r) == msgs[r][Len(msgs[r])]
NoCallRaised(r) == \A i \in 1..Len(calls[r]) : calls[r][i].raised = NoFault
DownloadCompleted(r) == \E i \in 1..Len(calls[r]) : calls[r][i] = Call("download:end", NoFault)

\* the url is blank, or spells neither host marker
BadUrl(raw) ==
    \/ \A i \in 1..Len(raw) : raw[i] \in Whitespace
    \/ ~Occurs(M_youtube_com, raw) /\ ~Occurs(M_youtu_be, raw)

\* the configured maximum duration
MaxConfigured == IF "MAX_VIDEO_DURATION" \in DOMAIN settings
                 THEN settings["MAX_VIDEO_DURATION"] ELSE DEFAULT_MAX_VIDEO_DURATION

\* the metadata-only call of r returned a numeric duration
ProbedDuration(r) ==
    /\ Len(calls[r]) >= 1
    /\ calls[r][1] = Call("extract_info", NoFault)
    /\ "duration" \in DOMAIN site
    /\ site["duration"].t = "int"

\* C1: once the metadata-only call returned duration d: if d exceeds the configured
\* maximum the request has ended with a warning and a redirect and made no download
\* call; otherwise it makes exactly one download call.
C1_DurationLimit ==
    \A r \in Reqs :
        (IsDownloadPost(r) /\ ProbedDuration(r)) =>
            LET d == site["duration"].v
            IN  /\ d > MaxConfigured =>
                     /\ Done(r)
                     /\ DownloadCalls(r) = 0
                     /\ LastMsg(r).level = "warning"
                     /\ response[r] = Redirect
                /\ d <= MaxConfigured =>
                     /\ DownloadCalls(r) <= 1
                     /\ pc[r] = "download" <=> DownloadCalls(r) = 0

C1_Witness ==
    \E r \in Reqs :
        /\ IsDownloadPost(r) /\ ProbedDuration(r) /\ Done(r)
        /\ site["duration"].v > MaxConfigured
        /\ MaxConfigured = DEFAULT_MAX_VIDEO_DURATION
        /\ LastMsg(r).arg = <<"2">>

\* C2: a POST whose url is blank or spells neither host marker makes no engine call,
\* and ends with the one warning "Please provide a valid YouTube URL" and a redirect
\* to home.
C2_BadUrlRejected ==
    \A r \in Reqs :
        (IsDownloadPost(r) /\ BadUrl(RawUrl(r))) =>
            /\ calls[r] = <<>>
            /\ pc[r] \in {"start", "done"}
            /\ Done(r) =>
                 /\ msgs[r] = <<Msg("warning", MSG_INVALID_URL, <<>>)>>
                 /\ response[r] = Redirect
                 /\ proc[r] = NotRun

C2_Witness ==
    \E r \in Reqs :
        /\ IsDownloadPost(r) /\ Done(r)
        /\ RawUrl(r) = <<"n","o","t","-","a","-","u","r","l">>
        /\ msgs[r] = <<Msg("warning", MSG_INVALID_URL, <<>>)>>

\* the alternatives of a format selector, in order of preference
RECURSIVE Alternatives(_)
Alternatives(fmt) ==
    LET cuts == {i \in 1..Len(fmt) : fmt[i] = "/"}
    IN  IF cuts = {} THEN <<fmt>>
        ELSE LET i == CHOOSE c \in cuts : \A c2 \in cuts : c <= c2
             IN  <<SubSeq(fmt, 1, i - 1)>> \o Alternatives(SubSeq(fmt, i + 1, Len(fmt)))

\* an alternative that combines two separately fetched streams
RequestsMerge(fmt) ==
    \E i \in 1..Len(Alternatives(fmt)) : Occurs(<<"+">>, Alternatives(fmt)[i])

SEL_bestvideo_mp4 == <<"b","e","s","t","v","i","d","e","o","[","e","x","t","=","m","p","4","]">>
SEL_bestaudio_m4a == <<"b","e","s","t","a","u","d","i","o","[","e","x","t","=","m","4","a","]">>
SEL_best_mp4 == <<"b","e","s","t","[","e","x","t","=","m","p","4","]">>
SEL_best == <<"b","e","s","t">>

\* the prober of r returned, to download_video
ProberReturned(r) == IsDownloadPost(r) /\ "format" \in DOMAIN ydl_opts[r]

\* C3: when the prober reported ffmpeg unavailable, no alternative of the format
\* selector in the download options combines a video stream with an audio stream.
C3_NoMergeWithoutFfmpeg ==
    \A r \in Reqs :
        (ProberReturned(r) /\ ~has_ffmpeg[r]) => ~RequestsMerge(ydl_opts[r]["format"])

\* C4: after the prober returned false the options hold no merge format and the
\* selector does not name the m4a audio stream; after it returned true the merge
\* format is mp4 and the selector is mp4 video + m4a audio, then best mp4, then best.
C4_OptionsFollowProber ==
    \A r \in Reqs :
        ProberReturned(r) =>
            IF has_ffmpeg[r]
            THEN /\ "merge_output_format" \in DOMAIN ydl_opts[r]
                 /\ ydl_opts[r]["merge_output_format"] = "mp4"
                 /\ Alternatives(ydl_opts[r]["format"]) =
                        << SEL_bestvideo_mp4 \o <<"+">> \o SEL_bestaudio_m4a,
                           SEL_best_mp4, SEL_best >>
            ELSE /\ "merge_output_format" \notin DOMAIN ydl_opts[r]
                 /\ ~Occurs(SEL_bestaudio_m4a, ydl_opts[r]["format"])

C4_Witness ==
    \E r \in Reqs :
        /\ ProberReturned(r) /\ ~has_ffmpeg[r]
        /\ proc[r].kind = "completed"
        /\ pc[r] = "downloading"

\* the failures download_video knows
ValidationFailed(r) == BadUrl(RawUrl(r))
DurationExceeded(r) == ProbedDuration(r) /\ site["duration"].v > MaxConfigured
EngineFailed(r) == fault[r].exc \in {"DownloadError", "ExtractorError"}
UnexpectedFault(r) == fault[r] # NoFault /\ ~EngineFailed(r)

\* C6: a finished POST to download_video carries a notification; a known failure
\* (bad url, duration exceeded, DownloadError, ExtractorError) ends in a redirect to
\* home with a warning or an error; an exception leaves the view only when it is an
\* unexpected one and DEBUG is set; without DEBUG an unexpected fault ends in the
\* "Unexpected error" notification and a redirect.
C6_FaultsBecomeNotifications ==
    \A r \in Reqs :
        (IsDownloadPost(r) /\ Done(r)) =>
            /\ msgs[r] # <<>>
            /\ response[r] = Redirect \/ response[r].kind = "raise"
            /\ (ValidationFailed(r) \/ DurationExceeded(r) \/ EngineFailed(r)) =>
                 /\ response[r] = Redirect
                 /\ LastMsg(r).level \in {"warning", "error"}
            /\ response[r].kind = "raise" => (UnexpectedFault(r) /\ settings["DEBUG"])
            /\ (UnexpectedFault(r) /\ ~settings["DEBUG"]) =>
                 /\ response[r] = Redirect
                 /\ LastMsg(r) = Msg("error", "Unexpected error: {str(e)}", fault[r].text)

C6_Witness ==
    \E r \in Reqs :
        /\ IsDownloadPost(r) /\ Done(r)
        /\ fault[r].exc = "UnavailableVideoError"
        /\ ~settings["DEBUG"]
        /\ response[r] = Redirect

\* C7: the prober never raises: no exception of the ffmpeg launch leaves it, in home
\* or in download_video; a failed launch gives false; it gives true only when the
\* standard output spells "ffmpeg version".
C7_ProberNeverRaises ==
    \A r \in Reqs :
        proc[r] # NotRun =>
            /\ view[r] = "home" => response[r].kind = "render"
            /\ view[r] = "download_video" => fault[r].exc \notin {"FileNotFoundError", "PermissionError"}
            /\ has_ffmpeg[r] => (proc[r].kind = "completed" /\ Occurs(M_ffmpeg_version, proc[r].stdout))

\* C8: a finished request with a valid url and a probed duration within the limit,
\* none of whose calls raised, made the metadata-only call, then the download call,
\* which returned, and then added the success notification with the title the
\* metadata-only call returned; and a success notification is only ever present
\* after the download call of the request returned.
C8_SuccessAfterDownload ==
    \A r \in Reqs :
        IsDownloadPost(r) =>
            /\ (Done(r) /\ ProbedDuration(r) /\ site["duration"].v <= MaxConfigured
                  /\ NoCallRaised(r)) =>
                 /\ MetaCalls(r) = 1 /\ DownloadCalls(r) = 1
                 /\ calls[r][1].op = "extract_info" /\ calls[r][2].op = "download"
                 /\ calls[r][Len(calls[r])] = Call("download:end", NoFault)
                 /\ LastMsg(r).level = "success"
                 /\ "title" \in DOMAIN site => LastMsg(r).arg = <<site["title"]>>
                 /\ response[r] = Redirect
            /\ (\E i \in 1..Len(msgs[r]) : msgs[r][i].level = "success") =>
                 /\ DownloadCompleted(r)
                 /\ Done(r)
                 /\ LastMsg(r).level = "success"

C8_Witness ==
    \E r \in Reqs :
        /\ IsDownloadPost(r) /\ Done(r)
        /\ LastMsg(r) = Msg("success", "'{title}' downloaded successfully!", <<"Clip">>)
        /\ outPath[r] = <<"DOWNLOAD_DIR/", "Talk", ".", "webm">>
        /\ hooked[r] > 0

\* C9: no invocation of the progress hook raises, so none aborts a download.
C9_HookNeverRaises ==
    \A r \in Reqs :
        \A i \in 1..Len(calls[r]) :
            calls[r][i].op = "progress_hook" => calls[r][i].raised = NoFault

(***************************************************************************)
(* download_video run alone, start to end, against the answers its         *)
(* environment gave: the ffmpeg launch `run` and the call log `log`.  The  *)
(* result is the notifications, the response, and how many entries of the  *)
(* log the run accounts for (-1 when the log stops short of the run).      *)
(***************************************************************************)
Outcome(m, resp, used) == [msgs |-> m, response |-> resp, used |-> used]
Unfinished == Outcome(<<>>, NoResponse, -1)
Handled(m, e, conf, used) ==
    LET h == Handle(m, e, conf) IN Outcome(h.msgs, h.response, used)

RECURSIVE AloneDownload(_, _, _, _, _)
AloneDownload(m, info, conf, log, i) ==
    IF i > Len(log) THEN Unfinished
    ELSE IF log[i].op = "progress_hook"
    THEN IF log[i].raised # NoFault
         THEN Handled(m, log[i].raised, conf, i)
         ELSE AloneDownload(m, info, conf, log, i + 1)
    ELSE IF log[i].op = "download:end"
    THEN IF log[i].raised # NoFault
         THEN Handled(m, log[i].raised, conf, i)
         ELSE Outcome(Append(m, SuccessMessage(info)), Redirect, i)
    ELSE Unfinished

RunAlone(conf, info, raw_url, run, log) ==
    IF RejectsUrl(Strip(raw_url))
    THEN Outcome(<<Msg("warning", MSG_INVALID_URL, <<>>)>>, Redirect, 0)
    ELSE
    LET res == _check_ffmpeg_available(run)
        m == IF res.value THEN <<>> ELSE <<Msg("info", MSG_BASIC_MODE, <<>>)>>
        max_duration == Get(conf, "MAX_VIDEO_DURATION", DEFAULT_MAX_VIDEO_DURATION)
        chk == DurationCheck(info, max_duration)
    IN  IF res.raised # "" THEN Handled(<<>>, LaunchFault(res.raised), conf, 0)
        ELSE IF Len(log) < 1 \/ log[1].op # "extract_info" THEN Unfinished
        ELSE IF log[1].raised # NoFault THEN Handled(m, log[1].raised, conf, 1)
        ELSE IF chk = "TypeError" THEN Handled(m, E_TypeError, conf, 1)
        ELSE IF chk = "exceeds"
        THEN Outcome(Append(m, Msg("warning",
                                   "Videos longer than {max_duration//3600} hours are not supported",
                                   <<ToString(max_duration \div 3600)>>)),
                     Redirect, 1)
        ELSE IF Len(log) < 2 \/ log[2].op # "download" THEN Unfinished
        ELSE AloneDownload(m, info, conf, log, 3)

\* everything request q holds
RequestState(q) ==
    <<pc[q], video_url[q], ydl_opts[q], proc[q], has_ffmpeg[q], info_dict[q], msgs[q],
      response[q], calls[q], fault[q], hooked[q], outPath[q]>>

\* a finished request has the notifications, the response and the calls of a run alone
EndsAsAlone(r) ==
    Done(r) =>
        LET alone == RunAlone(settings, site, RawUrl(r), proc[r], calls[r])
        IN  /\ msgs[r] = alone.msgs
            /\ response[r] = alone.response
            /\ Len(calls[r]) = alone.used

\* a step changes what one request holds, and nothing of any other request
OneRequestMoves ==
    \E r \in Reqs : \A q \in Reqs \ {r} : RequestState(q)' = RequestState(q)

\* C10: of two concurrent POSTs for the same valid url, every step touches one
\* request only, and each request ends with the notifications, the response and the
\* engine calls of a run alone against the same answers: neither is spared its
\* metadata-only call or its download call by the other.
C10_ConcurrentRequestsIndependent ==
    /\ [](\A r \in Reqs : EndsAsAlone(r))
    /\ [][OneRequestMoves]_vars

\* both downloads are writing the same file at once
C10_Witness ==
    /\ \A r \in Reqs : pc[r] = "downloading" /\ DownloadCalls(r) = 1 /\ MetaCalls(r) = 1
    /\ outPath["A"] = outPath["B"]
    /\ video_url["A"] = video_url["B"]

=============================================================================
